---- MODULE Spec2Model ----
(***************************************************************************)
(* GraphRAG hybrid retrieval and provenance linking engine.                *)
(*                                                                         *)
(* State machines over one set of variables:                               *)
(*   SpecLinker     the Graph Linker (neo4jClient.js: storeExtraction and  *)
(*                  the upserts it calls), fed by the extraction pipeline  *)
(*   SpecRetrieval  the Hybrid Retriever (hybridRetrieval.js) over the     *)
(*                  chunk store (mongodbClient.js) and the graph store     *)
(*   SpecPopular    the Hybrid Retriever on a graph with a popular node    *)
(*   SpecExtractor  the Entity Extractor (entityExtractor.js)              *)
(*   SpecQuery      the Query Orchestrator (queryGraphRAG) driving the     *)
(*                  Hybrid Retriever, the Prompt Assembler and generation  *)
(*   SpecConcurrent queryGraphRAG calls running concurrently in one        *)
(*                  process over the module-level store connections        *)
(***************************************************************************)
EXTENDS Integers, Sequences, FiniteSets, TLC

\* JavaScript undefined / null (a missing JSON field).
Null == "<undefined>"

\* JavaScript !v for the values a name or a type can take.
Falsy(v) == v = Null \/ v = ""

Range(s) == {s[k] : k \in 1..Len(s)}

(***************************************************************************)
(* Bounds                                                                  *)
(***************************************************************************)
\* Number of storeExtraction calls started in one behaviour.
MaxStores == 2

\* Number of documents inserted into the chunk collection.
MaxChunks == 3

\* Largest topK a query asks for.
MaxTopK == 2

\* Largest graphDepth a query asks for.
MaxDepth == 2

\* Number of chunks handed to extractFromChunks.
MaxBatch == 2

\* Largest number of rows of an unordered query result whose every order is
\* explored; larger results are explored in two opposite orders.
MaxPermuted == 3

\* Number of queryGraphRAG calls running concurrently in one process.
MaxQueries == 2

(***************************************************************************)
(* Passages of the corpus                                                  *)
(***************************************************************************)
\* Chunks as chunkDocument builds them; text is abstracted to the set of
\* entity names it contains (what hybridRetrieval's substring scan observes).
Passages ==
  { [chunk_id |-> "c1", doc_id |-> "d1", page_number |-> 1, text |-> {"Sam Altman"}],
    [chunk_id |-> "c2", doc_id |-> "d1", page_number |-> 1, text |-> {"OpenAI"}],
    [chunk_id |-> "c3", doc_id |-> "d2", page_number |-> 2, text |-> {}] }

VARIABLES
  nodes,      \* graph store: set of nodes [id, label, name, chunk_id, doc_id]
  edges,      \* graph store: set of edges [id, fromLabel, fromName, type, toLabel, toName, chunk_id, doc_id]
  calls,      \* storeExtraction calls, in start order
  collection, \* chunk store: the documents of the collection, in natural order
  hr,         \* the hybridRetrieval call: its position and its locals
  ef,         \* the extractFromChunks call: its position and its locals
  requests,   \* generation requests sent to the backend, in dispatch order
  timers,     \* timeout timers of the extraction calls, in dispatch order
  q,          \* the queryGraphRAG call: its position and its locals
  conn,       \* the module-level store connections (client, db, driver)
  queries     \* the concurrent queryGraphRAG calls: position and outcome of each

vars == <<nodes, edges, calls, collection, hr, ef, requests, timers, q, conn, queries>>

graphVars == <<nodes, edges>>
linkerVars == <<calls>>
retrievalVars == <<collection, hr>>
extractorVars == <<ef, requests, timers>>
queryVars == <<q, conn>>
concurrentVars == <<queries>>

\* What the actions of one component leave alone.
outsideLinker == <<retrievalVars, extractorVars, queryVars, concurrentVars>>
outsideRetrieval == <<graphVars, linkerVars, extractorVars, queryVars, concurrentVars>>
outsideExtractor == <<graphVars, linkerVars, retrievalVars, queryVars, concurrentVars>>
outsideQuery == <<graphVars, linkerVars, extractorVars, collection, concurrentVars>>
outsideConcurrent == <<graphVars, linkerVars, retrievalVars, extractorVars, q>>

(***************************************************************************)
(* Entity Extractor: structure validation                                  *)
(***************************************************************************)
\* The fixed type set (switch of storeExtraction, list of validateExtraction).
EntityTypes == {"Person", "Company", "Product", "Field"}

\* A parsed JSON field that may or may not be an array: Arr(items) is an
\* array, NotArr an absent field or a value of another type.
Arr(items) == [array |-> TRUE, items |-> items]
NotArr == [array |-> FALSE, items |-> <<>>]

\* !v || !Array.isArray(v) is false exactly for arrays.
IsArray(v) == v.array

\* extractEntitiesAndRelationships, lines 61-69: the two fields are coerced
\* to arrays; the items themselves are returned as parsed.
ValidateStructure(raw) ==
  [entities      |-> IF IsArray(raw.entities) THEN raw.entities.items ELSE <<>>,
   relationships |-> IF IsArray(raw.relationships) THEN raw.relationships.items ELSE <<>>]

\* validateExtraction, per entity and per relationship.
ValidEntity(e) ==
  /\ ~Falsy(e.name) /\ ~Falsy(e.type)
  /\ e.type \in EntityTypes

ValidRelationship(r) ==
  /\ ~Falsy(r.from) /\ ~Falsy(r.to) /\ ~Falsy(r.type)
  /\ ~Falsy(r.from_type) /\ ~Falsy(r.to_type)

(***************************************************************************)
(* Graph store: Cypher MERGE / SET                                         *)
(***************************************************************************)
NodesMatching(ns, label, name) == {n \in ns : n.label = label /\ n.name = name}

\* A new node without properties. The store tells nodes with the same label
\* and name apart by their identity: id numbers the nodes that share a key.
NewNode(ns, label, name) ==
  [id |-> Cardinality(NodesMatching(ns, label, name)) + 1,
   label |-> label, name |-> name, chunk_id |-> Null, doc_id |-> Null]

\* CREATE in place of MERGE: a node is created whether or not one matches.
MergeNodeAlwaysCreates(ns, label, name) ==
  ns \cup {NewNode(ns, label, name)}

\* MERGE (x:label {name: $name}): creates the node only when none matches.
MergeNode(ns, label, name) ==
  IF NodesMatching(ns, label, name) # {}
  THEN ns
  ELSE ns \cup {NewNode(ns, label, name)}

\* SET x += $properties on every matched node: keys of $properties replace
\* the node's values of the same keys.
SetNodeProperties(ns, label, name, props) ==
  {IF n.label = label /\ n.name = name
   THEN [n EXCEPT !.chunk_id = props.chunk_id, !.doc_id = props.doc_id]
   ELSE n : n \in ns}

\* MERGE of a null property value is rejected by the store.
createNodeThrows(name) == name = Null

createPersonNode(ns, name, props) ==
  SetNodeProperties(MergeNode(ns, "Person", name), "Person", name, props)

createCompanyNode(ns, name, props) ==
  SetNodeProperties(MergeNode(ns, "Company", name), "Company", name, props)

createProductNode(ns, name, props) ==
  SetNodeProperties(MergeNode(ns, "Product", name), "Product", name, props)

createFieldNode(ns, name, props) ==
  SetNodeProperties(MergeNode(ns, "Field", name), "Field", name, props)

\* label.replace(/[^a-zA-Z0-9_]/g, '_') on the labels the model uses: the
\* only one with a character outside the class is "PARTNERED-WITH".
sanitizeLabel(label) ==
  IF label = "PARTNERED-WITH" THEN "PARTNERED_WITH" ELSE label

EdgesMatching(es, fl, fn, rl, tl, tn) ==
  {e \in es : /\ e.fromLabel = fl /\ e.fromName = fn /\ e.type = rl
              /\ e.toLabel = tl /\ e.toName = tn}

\* MERGE (from)-[r:rel]->(to)
MergeEdge(es, fl, fn, rl, tl, tn) ==
  IF EdgesMatching(es, fl, fn, rl, tl, tn) # {}
  THEN es
  ELSE es \cup {[id |-> Cardinality(EdgesMatching(es, fl, fn, rl, tl, tn)) + 1,
                 fromLabel |-> fl, fromName |-> fn, type |-> rl,
                 toLabel |-> tl, toName |-> tn,
                 chunk_id |-> Null, doc_id |-> Null]}

\* SET r += $properties
SetEdgeProperties(es, fl, fn, rl, tl, tn, props) ==
  {IF /\ e.fromLabel = fl /\ e.fromName = fn /\ e.type = rl
      /\ e.toLabel = tl /\ e.toName = tn
   THEN [e EXCEPT !.chunk_id = props.chunk_id, !.doc_id = props.doc_id]
   ELSE e : e \in es}

\* createRelationship throws before or inside the statement: sanitizeLabel
\* of undefined is a TypeError, an empty label is a syntax error, and MERGE
\* rejects a null name. A failed statement changes nothing.
createRelationshipThrows(rel) ==
  \/ rel.from_type = Null \/ rel.to_type = Null \/ rel.type = Null
  \/ rel.from_type = "" \/ rel.to_type = "" \/ rel.type = ""
  \/ rel.from = Null \/ rel.to = Null

\* Only the source endpoint is merged before the edge.
createRelationshipNodesFromOnly(ns, rel) ==
  MergeNode(ns, sanitizeLabel(rel.from_type), rel.from)

\* The nodes after createRelationship: both endpoints are merged, without
\* properties.
createRelationshipNodes(ns, rel) ==
  MergeNode(MergeNode(ns, sanitizeLabel(rel.from_type), rel.from),
            sanitizeLabel(rel.to_type), rel.to)

\* The edges after createRelationship: the edge is merged and carries the
\* properties.
createRelationship(es, rel, props) ==
  LET fl == sanitizeLabel(rel.from_type)
      tl == sanitizeLabel(rel.to_type)
      rl == sanitizeLabel(rel.type)
  IN  SetEdgeProperties(MergeEdge(es, fl, rel.from, rl, tl, rel.to),
                        fl, rel.from, rl, tl, rel.to, props)

(***************************************************************************)
(* Generation outputs reaching the linker                                  *)
(***************************************************************************)
Sam     == [name |-> "Sam Altman", type |-> "Person"]
OpenAI  == [name |-> "OpenAI", type |-> "Company"]
NoName  == [name |-> Null, type |-> "Company"]
Blank   == [name |-> "", type |-> "Person"]
Alien   == [name |-> "Sam Altman", type |-> "Alien"]

CeoOf     == [from |-> "Sam Altman", from_type |-> "Person", type |-> "CEO_OF",
              to |-> "OpenAI", to_type |-> "Company"]
Partnered == [from |-> "OpenAI", from_type |-> "Company", type |-> "PARTNERED-WITH",
              to |-> "Microsoft", to_type |-> "Company"]
NoTarget  == [from |-> "OpenAI", from_type |-> "Company", type |-> "FOUNDED",
              to |-> Null, to_type |-> "Company"]
NoLabel   == [from |-> "Sam Altman", from_type |-> "Person", type |-> Null,
              to |-> "OpenAI", to_type |-> "Company"]

\* Parsed generation outputs (JSON objects) the pipeline can receive.
RawOutputs ==
  { [entities |-> Arr(<<Sam, OpenAI>>), relationships |-> Arr(<<CeoOf>>)],
    [entities |-> Arr(<<Sam>>),         relationships |-> NotArr],
    [entities |-> Arr(<<>>),            relationships |-> Arr(<<Partnered>>)],
    [entities |-> Arr(<<Blank>>),       relationships |-> Arr(<<>>)],
    [entities |-> Arr(<<NoName, Sam>>), relationships |-> Arr(<<>>)],
    [entities |-> Arr(<<Alien>>),       relationships |-> Arr(<<CeoOf>>)],
    [entities |-> Arr(<<OpenAI>>),      relationships |-> Arr(<<NoTarget>>)],
    [entities |-> NotArr,            relationships |-> Arr(<<NoLabel, CeoOf>>)],
    [entities |-> NotArr,            relationships |-> NotArr] }

\* The locals of extractFromChunks before the call.
IdleBatch ==
  [pc |-> "idle", chunks |-> <<>>, idx |-> 1, cur |-> 0,
   chunksWithExtractions |-> <<>>, outcomes |-> <<>>,
   totalEntities |-> 0, totalRelationships |-> 0, processed |-> 0, errors |-> 0]

\* The locals of hybridRetrieval before the call; failed holds the positions
\* of the entity names whose expansion raised, graphQueries counts the
\* statements sent to the graph store.
IdleRetrieval ==
  [pc |-> "idle", topK |-> 0, graphDepth |-> 0, graphQueries |-> 0,
   vectorResults |-> <<>>, entityNames |-> <<>>, idx |-> 1, failed |-> {},
   relatedEntities |-> <<>>, paths |-> <<>>,
   fetched |-> <<>>, graphChunks |-> <<>>, allChunks |-> <<>>, graphPaths |-> <<>>]

\* The value constructGraphAwarePrompt has not produced yet.
NoPrompt == [built |-> FALSE, graph |-> <<>>, documents |-> <<>>]

\* The locals of queryGraphRAG before the call; generation is the state of
\* the model.invoke request, generationError the error it rejected with and
\* invocations counts the calls of it.
IdleQuery ==
  [pc |-> "idle", topK |-> 0, graphDepth |-> 0,
   prompt |-> NoPrompt, generation |-> "none", generationError |-> "none",
   invocations |-> 0,
   answer |-> Null, citations |-> <<>>, graphPaths |-> <<>>]

\* client = null, db = null, driver = null (mongodbClient.js lines 4-5,
\* neo4jClient.js line 4).
NoConnections == [client |-> Null, db |-> Null, driver |-> Null]

\* No concurrent call is running.
NoQueries == <<>>

(***************************************************************************)
(* Graph Linker: storeExtraction, one step per awaited statement           *)
(***************************************************************************)
Provenance(chunk) == [chunk_id |-> chunk.chunk_id, doc_id |-> chunk.doc_id]

Active(c) == c.pc \in {"entities", "relationships"}

\* extractEntitiesFromChunks, lines 59-69: an extraction with an entity or
\* a relationship is handed to storeExtraction with the passage's ids.
StartStore(raw, chunk) ==
  LET extraction == ValidateStructure(raw) IN
  /\ Len(calls) < MaxStores
  /\ Len(extraction.entities) > 0 \/ Len(extraction.relationships) > 0
  /\ calls' = Append(calls,
       [extraction |-> extraction, chunk |-> chunk, pc |-> "entities",
        i |-> 1, j |-> 1,
        results |-> [entities |-> 0, relationships |-> 0],
        overlaps |-> {k \in 1..Len(calls) : Active(calls[k])}])
  /\ UNCHANGED <<nodes, edges, outsideLinker>>

\* One iteration of the entity loop (lines 193-211).
StoreEntity(k) ==
  LET c == calls[k]
      entity == c.extraction.entities[c.i]
      props == Provenance(c.chunk)
  IN
  /\ c.pc = "entities"
  /\ c.i <= Len(c.extraction.entities)
  /\ IF entity.type \in EntityTypes /\ createNodeThrows(entity.name)
     THEN /\ calls' = [calls EXCEPT ![k].pc = "thrown"]
          /\ UNCHANGED nodes
     ELSE /\ nodes' =
               CASE entity.type = "Person"  -> createPersonNode(nodes, entity.name, props)
                 [] entity.type = "Company" -> createCompanyNode(nodes, entity.name, props)
                 [] entity.type = "Product" -> createProductNode(nodes, entity.name, props)
                 [] entity.type = "Field"   -> createFieldNode(nodes, entity.name, props)
                 [] OTHER -> nodes
          /\ calls' = [calls EXCEPT ![k].i = c.i + 1,
                                    ![k].results.entities = c.results.entities + 1]
  /\ UNCHANGED <<edges, outsideLinker>>

\* The entity loop is over (line 212).
EntitiesDone(k) ==
  /\ calls[k].pc = "entities"
  /\ calls[k].i > Len(calls[k].extraction.entities)
  /\ calls' = [calls EXCEPT ![k].pc = "relationships"]
  /\ UNCHANGED <<nodes, edges, outsideLinker>>

\* One iteration of the relationship loop (lines 216-226).
StoreRelationship(k) ==
  LET c == calls[k]
      rel == c.extraction.relationships[c.j]
      props == Provenance(c.chunk)
  IN
  /\ c.pc = "relationships"
  /\ c.j <= Len(c.extraction.relationships)
  /\ IF createRelationshipThrows(rel)
     THEN /\ calls' = [calls EXCEPT ![k].pc = "thrown"]
          /\ UNCHANGED <<nodes, edges>>
     ELSE /\ nodes' = createRelationshipNodes(nodes, rel)
          /\ edges' = createRelationship(edges, rel, props)
          /\ calls' = [calls EXCEPT ![k].j = c.j + 1,
                                    ![k].results.relationships = c.results.relationships + 1]
  /\ UNCHANGED outsideLinker

\* return results (line 229).
StoreReturn(k) ==
  /\ calls[k].pc = "relationships"
  /\ calls[k].j > Len(calls[k].extraction.relationships)
  /\ calls' = [calls EXCEPT ![k].pc = "done"]
  /\ UNCHANGED <<nodes, edges, outsideLinker>>

\* The passages whose text mentions an entity: the others give the
\* extractor nothing to extract.
MentioningPassages == {p \in Passages : p.text # {}}

InitLinker ==
  /\ nodes = {}
  /\ edges = {}
  /\ calls = <<>>
  /\ collection = <<>>
  /\ hr = IdleRetrieval
  /\ ef = IdleBatch
  /\ requests = <<>>
  /\ timers = <<>>
  /\ q = IdleQuery
  /\ conn = NoConnections
  /\ queries = NoQueries

NextLinker ==
  \/ \E raw \in RawOutputs, chunk \in MentioningPassages : StartStore(raw, chunk)
  \/ \E k \in 1..Len(calls) : StoreEntity(k)
  \/ \E k \in 1..Len(calls) : EntitiesDone(k)
  \/ \E k \in 1..Len(calls) : StoreRelationship(k)
  \/ \E k \in 1..Len(calls) : StoreReturn(k)

SpecLinker == InitLinker /\ [][NextLinker]_vars

(***************************************************************************)
(* Chunk store (mongodbClient.js)                                          *)
(***************************************************************************)
\* config.vectorSearch.topK when TOP_K_RESULTS is not set.
DefaultTopK == 5

Min(a, b) == IF a < b THEN a ELSE b

\* Sequences over S without repetition, of length n.
InjectiveSeqs(S, n) ==
  {f \in [1..n -> S] : \A a, b \in 1..n : a # b => f[a] # f[b]}

RECURSIVE SomeOrder(_)
\* The elements of S in one fixed order.
SomeOrder(S) ==
  IF S = {} THEN <<>>
  ELSE LET x == CHOOSE y \in S : TRUE IN <<x>> \o SomeOrder(S \ {x})

Reverse(seq) == [k \in 1..Len(seq) |-> seq[Len(seq) + 1 - k]]

\* The orders in which a store can return the rows S of a query without
\* ORDER BY.
StoreOrders(S) ==
  IF Cardinality(S) <= MaxPermuted
  THEN InjectiveSeqs(S, Cardinality(S))
  ELSE {SomeOrder(S), Reverse(SomeOrder(S))}

\* The $project stage of vectorSearch: _id is excluded, the passage fields
\* are kept (the score is the rank and is not kept).
Project(doc) ==
  [chunk_id |-> doc.chunk_id, doc_id |-> doc.doc_id,
   page_number |-> doc.page_number, text |-> doc.text]

\* const k = limit || config.vectorSearch.topK
SearchLimit(limit) == IF limit = 0 THEN DefaultTopK ELSE limit

\* vectorSearch: up to k documents of the collection, each at most once,
\* in similarity order (any order relative to the collection's).
vectorSearch(coll, limit) ==
  LET k == SearchLimit(limit) IN
  UNION { {[r \in 1..n |-> Project(coll[pos[r]])] : pos \in InjectiveSeqs(1..Len(coll), n)}
          : n \in 0..Min(k, Len(coll)) }

\* find({chunk_id: {$in: chunkIds}}).toArray(): every matching document, in
\* the collection's order.
getChunksByIdsFind(coll, chunkIds) ==
  SelectSeq(coll, LAMBDA doc : doc.chunk_id \in chunkIds)

\* getChunksByIds returns what the find returns.
getChunksByIds(coll, chunkIds) == getChunksByIdsFind(coll, chunkIds)

(***************************************************************************)
(* Graph store: traversal (findRelatedEntities)                            *)
(***************************************************************************)
\* A traversal query without a LIMIT clause that could bite.
NoTraversalLimit == 1000

\* LIMIT 50 of the traversal query.
TraversalLimit == 50

NodeKey(label, name) == [label |-> label, name |-> name]

EdgeEnds(e) == {NodeKey(e.fromLabel, e.fromName), NodeKey(e.toLabel, e.toName)}

\* The node at the other end of edge e seen from node key cur.
OtherEnd(e, cur) ==
  IF NodeKey(e.fromLabel, e.fromName) = cur
  THEN NodeKey(e.toLabel, e.toName)
  ELSE NodeKey(e.fromLabel, e.fromName)

\* One more hop, in either direction, over a relationship the path has not
\* used yet.
ExtendPaths(es, P) ==
  UNION { {[rels |-> Append(p.rels, e), end |-> OtherEnd(e, p.end)]
             : e \in {x \in es : p.end \in EdgeEnds(x) /\ x \notin Range(p.rels)}}
          : p \in P }

RECURSIVE PathsOfLength(_, _, _)
PathsOfLength(es, start, n) ==
  IF n = 0 THEN {[rels |-> <<>>, end |-> start]}
  ELSE ExtendPaths(es, PathsOfLength(es, start, n - 1))

\* A pattern -[*0..depth]-, which also matches the start node itself.
MinHopsZero == 0

\* The lower bound of the pattern -[*1..depth]-.
MinHops == 1

\* MATCH path = (start {name: $entityName})-[*1..depth]-(related)
MatchPaths(ns, es, entityName, depth) ==
  UNION { PathsOfLength(es, NodeKey(s.label, s.name), n)
          : s \in {x \in ns : x.name = entityName}, n \in MinHops..depth }

\* One record per path and node at its end: {entity, type, path}.
TraversalRecords(ns, es, entityName, depth) ==
  UNION { {[path |-> p.rels, type |-> r.label, name |-> r.name,
            chunk_id |-> r.chunk_id, doc_id |-> r.doc_id]
             : r \in NodesMatching(ns, p.end.label, p.end.name)}
          : p \in MatchPaths(ns, es, entityName, depth) }

\* findRelatedEntities: the records in the order the store produces them
\* (no ORDER BY: any order), cut by LIMIT.
findRelatedEntities(ns, es, entityName, depth) ==
  LET recs == TraversalRecords(ns, es, entityName, depth)
  IN  {SubSeq(rows, 1, Min(Len(rows), TraversalLimit)) : rows \in StoreOrders(recs)}

(***************************************************************************)
(* Hybrid Retriever (hybridRetrieval.js)                                   *)
(***************************************************************************)
\* chunkText.includes(entityName.toLowerCase()) on the text abstraction.
TextIncludes(chunk, entityName) == entityName \in chunk.text

RECURSIVE AddAll(_, _)
\* Set.add of every element of seq, keeping insertion order.
AddAll(acc, seq) ==
  IF seq = <<>> THEN acc
  ELSE AddAll(IF Head(seq) \in Range(acc) THEN acc ELSE Append(acc, Head(seq)),
              Tail(seq))

RECURSIVE ScanChunks(_, _, _)
\* Method 2 of extractEntityNamesFromChunks: for each chunk, for each known
\* name, add the names the text contains.
ScanChunks(acc, chunks, allEntityNames) ==
  IF chunks = <<>> THEN acc
  ELSE ScanChunks(
         AddAll(acc, SelectSeq(allEntityNames,
                               LAMBDA nm : TextIncludes(Head(chunks), nm))),
         Tail(chunks), allEntityNames)

\* extractEntityNamesFromChunks given the result of the names query. No
\* document of the collection carries an extraction field (vectorSearch
\* projects it away), so method 1 adds nothing.
extractEntityNamesFromChunks(chunks, allEntityNames) ==
  ScanChunks(<<>>, chunks, allEntityNames)

\* `${rel.type}:${rel.entity.name}`: labels contain no colon, so the string
\* identifies the pair.
EntityKey(type, name) == <<type, name>>

SeenEntities(relatedEntities) ==
  {EntityKey(relatedEntities[m].type, relatedEntities[m].name)
     : m \in 1..Len(relatedEntities)}

\* The inner loop with seenEntities declared inside the outer loop: a record
\* adds a related entity unless an earlier record of the same result did.
AbsorbSeenPerEntity(acc, entityName, related) ==
  LET key(k) == EntityKey(related[k].type, related[k].name)
      fresh(k) == \A l \in 1..(k - 1) : key(l) # key(k)
      pushed == SelectSeq([k \in 1..Len(related) |-> k], fresh)
  IN  [relatedEntities |->
         acc.relatedEntities \o
           [m \in 1..Len(pushed) |->
              [name |-> related[pushed[m]].name, type |-> related[pushed[m]].type,
               chunk_id |-> related[pushed[m]].chunk_id,
               doc_id |-> related[pushed[m]].doc_id]],
       paths |->
         acc.paths \o
           [k \in 1..Len(related) |->
              [from |-> entityName, to |-> related[k].name,
               depth |-> Len(related[k].path)]]]

\* The inner loop of expandViaGraph (lines 159-180) over one result: a
\* record adds a related entity when its key is neither among those seen
\* before the call nor that of an earlier record, and every record adds a
\* path.
Absorb(acc, entityName, related) ==
  LET key(k) == EntityKey(related[k].type, related[k].name)
      fresh(k) == /\ key(k) \notin SeenEntities(acc.relatedEntities)
                  /\ \A l \in 1..(k - 1) : key(l) # key(k)
      pushed == SelectSeq([k \in 1..Len(related) |-> k], fresh)
  IN  [relatedEntities |->
         acc.relatedEntities \o
           [m \in 1..Len(pushed) |->
              [name |-> related[pushed[m]].name, type |-> related[pushed[m]].type,
               chunk_id |-> related[pushed[m]].chunk_id,
               doc_id |-> related[pushed[m]].doc_id]],
       paths |->
         acc.paths \o
           [k \in 1..Len(related) |->
              [from |-> entityName, to |-> related[k].name,
               depth |-> Len(related[k].path)]]]

\* Lines 113-119: the chunk ids of the related entities that have one.
RelatedChunkIds(relatedEntities) ==
  {relatedEntities[m].chunk_id : m \in 1..Len(relatedEntities)} \ {Null, ""}

\* Line 129: the graph chunks whose id is not among the vector results'.
UniqueGraphChunks(vectorResults, graphChunks) ==
  SelectSeq(graphChunks,
            LAMBDA c : c.chunk_id \notin {vectorResults[m].chunk_id : m \in 1..Len(vectorResults)})

\* The merge with the graph chunks ahead of the vector results.
AllChunksGraphFirst(vectorResults, uniqueGraphChunks) == uniqueGraphChunks \o vectorResults

\* Line 130.
AllChunks(vectorResults, uniqueGraphChunks) == vectorResults \o uniqueGraphChunks

\* The document the store keeps: the chunk plus the _id the driver assigns.
WithId(doc, id) ==
  [_id |-> id, chunk_id |-> doc.chunk_id, doc_id |-> doc.doc_id,
   page_number |-> doc.page_number, text |-> doc.text]

\* insertChunks: insertMany appends the documents; the collection has no
\* unique index on chunk_id. Documents are inserted before the query.
InsertChunks(doc) ==
  /\ hr.pc = "idle"
  /\ Len(collection) < MaxChunks
  /\ collection' = Append(collection, WithId(doc, Len(collection) + 1))
  /\ UNCHANGED <<outsideRetrieval, hr>>

\* hybridRetrieval(query, {topK, graphDepth}) up to the first await.
StartRetrieval(topK, graphDepth) ==
  /\ hr.pc = "idle"
  /\ hr' = [hr EXCEPT !.pc = "embedding", !.topK = topK, !.graphDepth = graphDepth]
  /\ UNCHANGED <<outsideRetrieval, collection>>

\* Step 1: generateEmbedding returns ...
EmbedQuery ==
  /\ hr.pc = "embedding"
  /\ hr' = [hr EXCEPT !.pc = "searching"]
  /\ UNCHANGED <<outsideRetrieval, collection>>

\* ... or raises, and so do vectorSearch and getChunksByIds when the store
\* is unreachable: hybridRetrieval has no handler for them.
RetrievalThrows ==
  /\ hr.pc \in {"embedding", "searching", "fetching"}
  /\ hr' = [hr EXCEPT !.pc = "thrown"]
  /\ UNCHANGED <<outsideRetrieval, collection>>

\* Step 2 without the early return: the call goes on to step 3 whatever the
\* search returned.
VectorSearchWithoutEarlyReturn(results) ==
  /\ hr.pc = "searching"
  /\ hr' = [hr EXCEPT !.vectorResults = results, !.pc = "resolving"]
  /\ UNCHANGED <<outsideRetrieval, collection>>

\* Step 2: vectorSearch; an empty result ends the call (lines 85-94).
VectorSearch(results) ==
  /\ hr.pc = "searching"
  /\ hr' = [hr EXCEPT !.vectorResults = results,
                      !.pc = IF Len(results) = 0 THEN "done" ELSE "resolving"]
  /\ UNCHANGED <<outsideRetrieval, collection>>

\* Step 3: extractEntityNamesFromChunks; names is the result of the
\* DISTINCT n.name query, in the order the store returns it.
ResolveEntities(names) ==
  /\ hr.pc = "resolving"
  /\ hr' = [hr EXCEPT !.entityNames = extractEntityNamesFromChunks(hr.vectorResults, names),
                      !.graphQueries = @ + 1,
                      !.pc = "expanding"]
  /\ UNCHANGED <<outsideRetrieval, collection>>

\* Step 3 when the names query raises: the error is caught (lines 51-53)
\* and no entity is resolved.
ResolveEntitiesFails ==
  /\ hr.pc = "resolving"
  /\ hr' = [hr EXCEPT !.entityNames = <<>>, !.graphQueries = @ + 1, !.pc = "expanding"]
  /\ UNCHANGED <<outsideRetrieval, collection>>

\* Step 4: one iteration of the loop of expandViaGraph.
ExpandEntity(related) ==
  LET entityName == hr.entityNames[hr.idx]
      acc == Absorb([relatedEntities |-> hr.relatedEntities, paths |-> hr.paths],
                    entityName, related)
  IN
  /\ hr.pc = "expanding"
  /\ hr.idx <= Len(hr.entityNames)
  /\ hr' = [hr EXCEPT !.relatedEntities = acc.relatedEntities,
                      !.paths = acc.paths,
                      !.graphQueries = @ + 1,
                      !.idx = hr.idx + 1]
  /\ UNCHANGED <<outsideRetrieval, collection>>

\* The try/catch around the loop instead of inside it: the first error ends
\* the expansion, and the names after it are never expanded.
ExpandEntityFailsEndsLoop ==
  /\ hr.pc = "expanding"
  /\ hr.idx <= Len(hr.entityNames)
  /\ hr' = [hr EXCEPT !.idx = Len(hr.entityNames) + 1,
                      !.graphQueries = @ + 1,
                      !.failed = @ \cup {hr.idx}]
  /\ UNCHANGED <<outsideRetrieval, collection>>

\* Step 4 when findRelatedEntities raises: caught, the entity is skipped
\* (lines 181-183).
ExpandEntityFails ==
  /\ hr.pc = "expanding"
  /\ hr.idx <= Len(hr.entityNames)
  /\ hr' = [hr EXCEPT !.idx = hr.idx + 1, !.graphQueries = @ + 1,
                      !.failed = @ \cup {hr.idx}]
  /\ UNCHANGED <<outsideRetrieval, collection>>

\* End of expandViaGraph (line 186).
ExpandDone ==
  /\ hr.pc = "expanding"
  /\ hr.idx > Len(hr.entityNames)
  /\ hr' = [hr EXCEPT !.pc = "fetching"]
  /\ UNCHANGED <<outsideRetrieval, collection>>

\* Steps 5 and 6: fetch the chunks of the related entities, merge, return.
FetchAndMerge ==
  LET ids == RelatedChunkIds(hr.relatedEntities)
      graphChunks == IF ids # {} THEN getChunksByIds(collection, ids) ELSE <<>>
      unique == UniqueGraphChunks(hr.vectorResults, graphChunks)
  IN
  /\ hr.pc = "fetching"
  /\ hr' = [hr EXCEPT !.fetched = graphChunks,
                      !.graphChunks = unique,
                      !.allChunks = AllChunks(hr.vectorResults, unique),
                      !.graphPaths = hr.paths,
                      !.pc = "done"]
  /\ UNCHANGED <<outsideRetrieval, collection>>

\* What the store calls of the current step can return; a step that is not
\* at the call has no outcome.
SearchOutcomes ==
  IF hr.pc = "searching" THEN vectorSearch(collection, hr.topK) ELSE {}

NamesOutcomes ==
  IF hr.pc = "resolving" THEN StoreOrders({n.name : n \in nodes}) ELSE {}

ExpandOutcomes ==
  IF hr.pc = "expanding" /\ hr.idx <= Len(hr.entityNames)
  THEN findRelatedEntities(nodes, edges, hr.entityNames[hr.idx], hr.graphDepth)
  ELSE {}

(***************************************************************************)
(* Graphs the retriever runs on                                            *)
(***************************************************************************)
\* A node as storeExtraction leaves it: provenance of the passage that
\* mentioned it last, or none when only a relationship created it.
GraphNode(label, name, chunk) ==
  [id |-> 1, label |-> label, name |-> name,
   chunk_id |-> chunk.chunk_id, doc_id |-> chunk.doc_id]

NoPassage == [chunk_id |-> Null, doc_id |-> Null]

GraphEdge(fl, fn, rl, tl, tn) ==
  [id |-> 1, fromLabel |-> fl, fromName |-> fn, type |-> rl,
   toLabel |-> tl, toName |-> tn, chunk_id |-> "c1", doc_id |-> "d1"]

\* Sam Altman -CEO_OF-> OpenAI -PARTNERED_WITH-> Microsoft
SamCeoOfOpenAI ==
  GraphEdge("Person", "Sam Altman", "CEO_OF", "Company", "OpenAI")

OpenAIPartneredWithMicrosoft ==
  GraphEdge("Company", "OpenAI", "PARTNERED_WITH", "Company", "Microsoft")

EdgeSets ==
  { {}, {SamCeoOfOpenAI}, {SamCeoOfOpenAI, OpenAIPartneredWithMicrosoft} }

\* OpenAI and Microsoft were last mentioned by c3 and c2, or by c2 and by
\* no passage at all.
NodePools ==
  { { GraphNode("Person", "Sam Altman", [chunk_id |-> "c1", doc_id |-> "d1"]),
      GraphNode("Company", "OpenAI", p[1]),
      GraphNode("Company", "Microsoft", p[2]) }
    : p \in { <<[chunk_id |-> "c3", doc_id |-> "d2"], [chunk_id |-> "c2", doc_id |-> "d1"]>>,
              <<[chunk_id |-> "c2", doc_id |-> "d1"], NoPassage>> } }

InitRetrieval ==
  /\ nodes \in NodePools
  /\ edges \in EdgeSets
  /\ calls = <<>>
  /\ collection = <<>>
  /\ hr = IdleRetrieval
  /\ ef = IdleBatch
  /\ requests = <<>>
  /\ timers = <<>>
  /\ q = IdleQuery
  /\ conn = NoConnections
  /\ queries = NoQueries

NextRetrieval ==
  \/ \E doc \in Passages : InsertChunks(doc)
  \/ \E topK \in 1..MaxTopK, graphDepth \in 0..MaxDepth : StartRetrieval(topK, graphDepth)
  \/ EmbedQuery
  \/ RetrievalThrows
  \/ \E results \in SearchOutcomes : VectorSearch(results)
  \/ \E names \in NamesOutcomes : ResolveEntities(names)
  \/ ResolveEntitiesFails
  \/ \E related \in ExpandOutcomes : ExpandEntity(related)
  \/ ExpandEntityFails
  \/ ExpandDone
  \/ FetchAndMerge

SpecRetrieval == InitRetrieval /\ [][NextRetrieval]_vars

(***************************************************************************)
(* A graph with a popular node                                             *)
(***************************************************************************)
\* The number of neighbours of the popular node: more than the LIMIT of the
\* traversal query.
PopularDegree == 51

EmployeeName(n) == "Employee " \o ToString(n)

\* OpenAI (mentioned by c2) and its employees (mentioned by c3).
PopularNodes ==
  {GraphNode("Company", "OpenAI", [chunk_id |-> "c2", doc_id |-> "d1"])}
    \cup {GraphNode("Person", EmployeeName(n), [chunk_id |-> "c3", doc_id |-> "d2"])
             : n \in 1..PopularDegree}

PopularEdges ==
  {GraphEdge("Person", EmployeeName(n), "WORKS_ON", "Company", "OpenAI")
     : n \in 1..PopularDegree}

InitPopular ==
  /\ nodes = PopularNodes
  /\ edges = PopularEdges
  /\ calls = <<>>
  /\ collection = <<>>
  /\ hr = IdleRetrieval
  /\ ef = IdleBatch
  /\ requests = <<>>
  /\ timers = <<>>
  /\ q = IdleQuery
  /\ conn = NoConnections
  /\ queries = NoQueries

SpecPopular == InitPopular /\ [][NextRetrieval]_vars

(***************************************************************************)
(* Entity Extractor (entityExtractor.js)                                   *)
(***************************************************************************)
\* What response.content can hold: text that is not JSON, JSON whose top
\* level is null, a string, a number or an array, or a JSON object.
Unparseable == [json |-> "unparseable", entities |-> NotArr, relationships |-> NotArr]
JsonNull    == [json |-> "null", entities |-> NotArr, relationships |-> NotArr]
JsonString  == [json |-> "string", entities |-> NotArr, relationships |-> NotArr]
JsonNumber  == [json |-> "number", entities |-> NotArr, relationships |-> NotArr]
JsonArray   == [json |-> "array", entities |-> NotArr, relationships |-> NotArr]

JsonObject(raw) ==
  [json |-> "object", entities |-> raw.entities, relationships |-> raw.relationships]

Contents ==
  {Unparseable, JsonNull, JsonString, JsonNumber, JsonArray}
    \cup {JsonObject(raw) : raw \in RawOutputs}

\* The value the catch block returns (lines 70-78).
EmptyExtraction(message) ==
  [entities |-> <<>>, relationships |-> <<>>, error |-> message]

\* An error thrown inside the try block is rethrown to the caller.
RethrowOnError(message) ==
  [outcome |-> "threw", value |-> EmptyExtraction(message)]

\* catch (error): the call returns the empty extraction with the message.
ReturnOnError(message) ==
  [outcome |-> "returned", value |-> EmptyExtraction(message)]

\* Lines 57-69 on the content of a response. JSON.parse throws on text that
\* is not JSON; reading a property of null and creating a property on a
\* string or a number (module code is strict) throw a TypeError; an array
\* and an object get the two fields coerced.
HandleResponse(content) ==
  CASE content.json = "unparseable" -> ReturnOnError("SyntaxError")
    [] content.json \in {"null", "string", "number"} -> ReturnOnError("TypeError")
    [] OTHER ->
         [outcome |-> "returned",
          value |-> [entities |-> ValidateStructure(content).entities,
                     relationships |-> ValidateStructure(content).relationships,
                     error |-> Null]]

\* The loop of extractFromChunks without its try/catch: an error thrown by
\* the call leaves the function, and no entry is pushed for the chunk.
RecordExtractionAbortsOnThrow(b, res) ==
  IF res.outcome = "threw"
  THEN [b EXCEPT !.outcomes = Append(@, res.outcome), !.pc = "done"]
  ELSE [b EXCEPT
          !.chunksWithExtractions =
             Append(@, [chunk_id |-> b.chunks[b.idx].chunk_id,
                        text |-> b.chunks[b.idx].text,
                        extraction |-> res.value]),
          !.outcomes = Append(@, res.outcome),
          !.totalEntities = @ + Len(res.value.entities),
          !.totalRelationships = @ + Len(res.value.relationships),
          !.processed = @ + 1,
          !.idx = @ + 1,
          !.pc = "loop"]

\* Lines 102-109 and 115-122 of extractFromChunks: the entry pushed for the
\* chunk ({...chunk, extraction}) and the counters, after the call returned
\* (or threw).
RecordExtraction(b, res) ==
  [b EXCEPT
     !.chunksWithExtractions =
        Append(@, [chunk_id |-> b.chunks[b.idx].chunk_id,
                   text |-> b.chunks[b.idx].text,
                   extraction |-> res.value]),
     !.outcomes = Append(@, res.outcome),
     !.totalEntities = IF res.outcome = "returned" THEN @ + Len(res.value.entities) ELSE @,
     !.totalRelationships = IF res.outcome = "returned" THEN @ + Len(res.value.relationships) ELSE @,
     !.errors = IF res.outcome = "threw" THEN @ + 1 ELSE @,
     !.processed = @ + 1,
     !.idx = @ + 1,
     !.pc = "loop"]

\* extractFromChunks(chunks): the text of a chunk is Null when it has none.
StartBatch(chunks) ==
  /\ ef.pc = "idle"
  /\ ef' = [ef EXCEPT !.pc = "loop", !.chunks = chunks]
  /\ UNCHANGED <<outsideExtractor, requests, timers>>

\* extractEntitiesAndRelationships up to the await (lines 45-55): the
\* request is sent and the timer armed. createExtractionPrompt runs before
\* the try block: text.substring of a missing text throws to
\* extractFromChunks, whose catch records the error.
Dispatch ==
  /\ ef.pc = "loop"
  /\ ef.idx <= Len(ef.chunks)
  /\ IF ef.chunks[ef.idx].text = Null
     THEN /\ ef' = RecordExtraction(ef, RethrowOnError("TypeError"))
          /\ UNCHANGED <<requests, timers>>
     ELSE /\ requests' = Append(requests, "pending")
          /\ timers' = Append(timers, "armed")
          /\ ef' = [ef EXCEPT !.pc = "racing", !.cur = Len(requests) + 1]
  /\ UNCHANGED outsideExtractor

\* The race of request r is still undecided.
Racing(r) == ef.pc = "racing" /\ ef.cur = r

\* The position among the processed chunks of the chunk request r was sent
\* for: chunks without text send no request.
ChunkOfRequest(r) ==
  CHOOSE m \in 1..Len(ef.chunks) :
    /\ ef.chunks[m].text # Null
    /\ Cardinality({l \in 1..m : ef.chunks[l].text # Null}) = r

\* The response of an abandoned request is handled like one that won: it
\* replaces the extraction recorded for its chunk.
GenerationResolvesHandlesLateResponse(r, content) ==
  /\ requests[r] = "pending"
  /\ requests' = [requests EXCEPT ![r] = content.json]
  /\ ef' = IF Racing(r) THEN RecordExtraction(ef, HandleResponse(content))
           ELSE [ef EXCEPT !.chunksWithExtractions[ChunkOfRequest(r)].extraction =
                             HandleResponse(content).value]
  /\ UNCHANGED <<outsideExtractor, timers>>

\* The backend answers request r; the request keeps the kind of content it
\* was answered with. If the race is undecided the response wins it and the
\* call handles the content; otherwise nobody listens.
GenerationResolves(r, content) ==
  /\ requests[r] = "pending"
  /\ requests' = [requests EXCEPT ![r] = content.json]
  /\ ef' = IF Racing(r) THEN RecordExtraction(ef, HandleResponse(content)) ELSE ef
  /\ UNCHANGED <<outsideExtractor, timers>>

\* The backend fails request r (unreachable, its own timeout).
GenerationRejects(r) ==
  /\ requests[r] = "pending"
  /\ requests' = [requests EXCEPT ![r] = "rejected"]
  /\ ef' = IF Racing(r) THEN RecordExtraction(ef, ReturnOnError("generation failed")) ELSE ef
  /\ UNCHANGED <<outsideExtractor, timers>>

\* The timer of call r fires (it is never cleared): the timeout promise
\* rejects, which decides the race if it is still undecided.
TimerFires(r) ==
  /\ timers[r] = "armed"
  /\ timers' = [timers EXCEPT ![r] = IF Racing(r) THEN "won" ELSE "fired"]
  /\ ef' = IF Racing(r) THEN RecordExtraction(ef, ReturnOnError("Extraction timeout")) ELSE ef
  /\ UNCHANGED <<outsideExtractor, requests>>

\* The loop is over: extractFromChunks returns chunksWithExtractions.
BatchReturns ==
  /\ ef.pc = "loop"
  /\ ef.idx > Len(ef.chunks)
  /\ ef' = [ef EXCEPT !.pc = "done"]
  /\ UNCHANGED <<outsideExtractor, requests, timers>>

\* The chunk at position m of a batch, as chunkDocument builds it: every
\* chunk has its own chunk_id.
BatchChunk(m, text) == [chunk_id |-> "c" \o ToString(m), text |-> text]

\* Batches of up to MaxBatch chunks, any of which may have lost its text.
BatchInputs ==
  UNION { {[m \in 1..n |-> BatchChunk(m, texts[m])] : texts \in [1..n -> {"text", Null}]}
          : n \in 0..MaxBatch }

InitExtractor ==
  /\ nodes = {}
  /\ edges = {}
  /\ calls = <<>>
  /\ collection = <<>>
  /\ hr = IdleRetrieval
  /\ ef = IdleBatch
  /\ requests = <<>>
  /\ timers = <<>>
  /\ q = IdleQuery
  /\ conn = NoConnections
  /\ queries = NoQueries

NextExtractor ==
  \/ \E chunks \in BatchInputs : StartBatch(chunks)
  \/ Dispatch
  \/ \E r \in 1..Len(requests), content \in Contents : GenerationResolves(r, content)
  \/ \E r \in 1..Len(requests) : GenerationRejects(r)
  \/ \E r \in 1..Len(timers) : TimerFires(r)
  \/ BatchReturns

SpecExtractor == InitExtractor /\ [][NextExtractor]_vars

(***************************************************************************)
(* Prompt Assembler (promptBuilder.js)                                     *)
(***************************************************************************)
\* maxChunks and maxGraphPaths as queryGraphRAG passes them.
PromptMaxChunks == 2
PromptMaxGraphPaths == 3

\* formatGraphPaths on one path: "from -> to (n hop[s])" (the source writes
\* the arrow as one character).
FormatGraphPath(path) ==
  path.from \o " -> " \o path.to \o " (" \o ToString(path.depth) \o " hop"
    \o (IF path.depth > 1 THEN "s" ELSE "") \o ")"

formatGraphPaths(paths) == [k \in 1..Len(paths) |-> FormatGraphPath(paths[k])]

\* The prompt without the two slices: every chunk and every path is written.
constructGraphAwarePromptUncapped(allChunks, graphPaths, maxChunks, maxGraphPaths, includeGraphPaths) ==
  [built |-> TRUE,
   graph |-> IF includeGraphPaths /\ Len(graphPaths) > 0
             THEN formatGraphPaths(graphPaths)
             ELSE <<>>,
   documents |-> [k \in 1..Len(allChunks) |->
                    [chunk_id |-> allChunks[k].chunk_id,
                     page_number |-> allChunks[k].page_number,
                     text |-> allChunks[k].text]]]

\* constructGraphAwarePrompt: the graph section holds the first maxGraphPaths
\* paths when paths are included and there are some; the documents section
\* holds the first maxChunks chunks of allChunks.
constructGraphAwarePrompt(allChunks, graphPaths, maxChunks, maxGraphPaths, includeGraphPaths) ==
  LET selectedChunks == SubSeq(allChunks, 1, Min(maxChunks, Len(allChunks)))
  IN  [built |-> TRUE,
       graph |-> IF includeGraphPaths /\ Len(graphPaths) > 0
                 THEN formatGraphPaths(SubSeq(graphPaths, 1, Min(maxGraphPaths, Len(graphPaths))))
                 ELSE <<>>,
       documents |-> [k \in 1..Len(selectedChunks) |->
                        [chunk_id |-> selectedChunks[k].chunk_id,
                         page_number |-> selectedChunks[k].page_number,
                         text |-> selectedChunks[k].text]]]

\* `${chunk.doc_id}:${chunk.page_number}`
CitationKey(chunk) == chunk.doc_id \o ":" \o ToString(chunk.page_number)

\* extractCitations: one citation for the first chunk of every key.
extractCitations(chunks) ==
  LET first(k) == \A l \in 1..(k - 1) : CitationKey(chunks[l]) # CitationKey(chunks[k])
      cited == SelectSeq([k \in 1..Len(chunks) |-> k], first)
  IN  [m \in 1..Len(cited) |->
         [page_number |-> chunks[cited[m]].page_number,
          doc_id |-> chunks[cited[m]].doc_id,
          chunk_id |-> chunks[cited[m]].chunk_id]]

(***************************************************************************)
(* Query Orchestrator (queryGraphRAG)                                      *)
(***************************************************************************)
NoInformationAnswer == "I could not find relevant information to answer your question."

FallbackAnswer ==
  "Unable to generate answer due to timeout. Try reducing graph depth or asking a simpler question."

\* What response.content of the answer model can hold.
Answers == {"Sam Altman is the CEO of OpenAI."}

\* finally: closeMongoDB and closeNeo4j set client, db and driver to null.
Finally(c) == [client |-> Null, db |-> Null, driver |-> Null]

\* queryGraphRAG(query, {topK, graphDepth}) up to the first await.
StartQuery(topK, graphDepth) ==
  /\ q.pc = "idle"
  /\ q' = [q EXCEPT !.pc = "connectingMongo", !.topK = topK, !.graphDepth = graphDepth]
  /\ UNCHANGED <<outsideQuery, hr, conn>>

\* await connectMongoDB() returns.
ConnectMongoDB ==
  /\ q.pc = "connectingMongo"
  /\ conn' = [conn EXCEPT !.client = "client", !.db = "db"]
  /\ q' = [q EXCEPT !.pc = "connectingNeo4j"]
  /\ UNCHANGED <<outsideQuery, hr>>

\* await connectNeo4j() returns, and hybridRetrieval runs up to its first
\* await.
ConnectNeo4j ==
  /\ q.pc = "connectingNeo4j"
  /\ hr.pc = "idle"
  /\ conn' = [conn EXCEPT !.driver = "driver"]
  /\ q' = [q EXCEPT !.pc = "retrieving"]
  /\ hr' = [hr EXCEPT !.pc = "embedding", !.topK = q.topK, !.graphDepth = q.graphDepth]
  /\ UNCHANGED outsideQuery

\* A connect raises: the catch rethrows and the finally block closes.
ConnectFails ==
  /\ q.pc \in {"connectingMongo", "connectingNeo4j"}
  /\ q' = [q EXCEPT !.pc = "raised"]
  /\ conn' = Finally(conn)
  /\ UNCHANGED <<outsideQuery, hr>>

\* hybridRetrieval raised: the catch of queryGraphRAG rethrows (line 260).
RetrievalRaised ==
  /\ q.pc = "retrieving"
  /\ hr.pc = "thrown"
  /\ q' = [q EXCEPT !.pc = "raised"]
  /\ conn' = Finally(conn)
  /\ UNCHANGED <<outsideQuery, hr>>

\* hybridRetrieval returned: with no chunk the fixed answer is returned
\* (lines 205-213), otherwise the prompt is built next.
RetrievalReturned ==
  /\ q.pc = "retrieving"
  /\ hr.pc = "done"
  /\ IF Len(hr.allChunks) = 0
     THEN /\ q' = [q EXCEPT !.pc = "emptyEvidence",
                            !.answer = NoInformationAnswer,
                            !.citations = <<>>,
                            !.graphPaths = <<>>]
          /\ conn' = Finally(conn)
     ELSE /\ q' = [q EXCEPT !.pc = "promptBuilding"]
          /\ UNCHANGED conn
  /\ UNCHANGED <<outsideQuery, hr>>

\* Step 3 followed by the return: the prompt is built and the call returns
\* without invoking the model.
BuildPromptSkipsGeneration ==
  /\ q.pc = "promptBuilding"
  /\ q' = [q EXCEPT
            !.prompt = constructGraphAwarePrompt(hr.allChunks, hr.graphPaths,
                         PromptMaxChunks, PromptMaxGraphPaths, q.graphDepth > 0),
            !.pc = "answered"]
  /\ conn' = Finally(conn)
  /\ UNCHANGED <<outsideQuery, hr>>

\* Steps 3 and 4 up to the await: the prompt is built and model.invoke is
\* called.
BuildPrompt ==
  /\ q.pc = "promptBuilding"
  /\ q' = [q EXCEPT
            !.prompt = constructGraphAwarePrompt(hr.allChunks, hr.graphPaths,
                         PromptMaxChunks, PromptMaxGraphPaths, q.graphDepth > 0),
            !.generation = "pending",
            !.invocations = @ + 1,
            !.pc = "generating"]
  /\ UNCHANGED <<outsideQuery, hr, conn>>

\* The chunks the citations are extracted from: the chunks of the prompt.
CitedChunksOfPrompt(allChunks) ==
  SubSeq(allChunks, 1, Min(PromptMaxChunks, Len(allChunks)))

\* The chunks the citations are extracted from (line 239).
CitedChunks(allChunks) == allChunks

\* Step 5 and the return (lines 239-256), then the finally block.
ReturnResult(pc, generation, error, answer) ==
  /\ q' = [q EXCEPT !.pc = pc,
                    !.generation = generation,
                    !.generationError = error,
                    !.answer = answer,
                    !.citations = extractCitations(CitedChunks(hr.allChunks)),
                    !.graphPaths = hr.graphPaths]
  /\ conn' = Finally(conn)

\* model.invoke resolves with an answer.
AnswerGenerated(content) ==
  /\ q.pc = "generating"
  /\ ReturnResult("answered", "resolved", "none", content)
  /\ UNCHANGED <<outsideQuery, hr>>

\* The errors model.invoke can reject with: its 180 s timeout ran out, or
\* the generation backend cannot be reached.
GenerationErrors == {"timeout", "unreachable"}

\* Step 4 without its own try/catch: the error of model.invoke reaches the
\* outer catch, which rethrows.
AnswerGenerationFailsAndRaises(error) ==
  /\ q.pc = "generating"
  /\ q' = [q EXCEPT !.pc = "raised", !.generation = "rejected", !.generationError = error]
  /\ conn' = Finally(conn)
  /\ UNCHANGED <<outsideQuery, hr>>

\* model.invoke rejects: the catch of lines 233-236 substitutes the fallback
\* answer, whatever the error is.
AnswerGenerationFails(error) ==
  /\ q.pc = "generating"
  /\ ReturnResult("timedOut", "rejected", error, FallbackAnswer)
  /\ UNCHANGED <<outsideQuery, hr>>

(***************************************************************************)
(* The corpus and the graph a query runs on                                *)
(***************************************************************************)
Passage(chunkId) == CHOOSE p \in Passages : p.chunk_id = chunkId

\* The collection after the ingestion of c1, c2 and c3.
Corpus == <<WithId(Passage("c1"), 1), WithId(Passage("c2"), 2), WithId(Passage("c3"), 3)>>

\* Sam Altman (c1) -CEO_OF-> OpenAI (c3) -PARTNERED_WITH-> Microsoft (c2).
CorpusNodes ==
  { GraphNode("Person", "Sam Altman", [chunk_id |-> "c1", doc_id |-> "d1"]),
    GraphNode("Company", "OpenAI", [chunk_id |-> "c3", doc_id |-> "d2"]),
    GraphNode("Company", "Microsoft", [chunk_id |-> "c2", doc_id |-> "d1"]) }

CorpusEdges == {SamCeoOfOpenAI, OpenAIPartneredWithMicrosoft}

InitQuery ==
  /\ nodes = CorpusNodes
  /\ edges = CorpusEdges
  /\ calls = <<>>
  /\ collection = Corpus
  /\ hr = IdleRetrieval
  /\ ef = IdleBatch
  /\ requests = <<>>
  /\ timers = <<>>
  /\ q = IdleQuery
  /\ conn = NoConnections
  /\ queries = NoQueries

\* The steps of hybridRetrieval, as in NextRetrieval.
RetrievalStep ==
  \/ EmbedQuery
  \/ RetrievalThrows
  \/ \E results \in SearchOutcomes : VectorSearch(results)
  \/ \E names \in NamesOutcomes : ResolveEntities(names)
  \/ ResolveEntitiesFails
  \/ \E related \in ExpandOutcomes : ExpandEntity(related)
  \/ ExpandEntityFails
  \/ ExpandDone
  \/ FetchAndMerge

\* The steps of queryGraphRAG after the call.
QueryStep ==
  \/ ConnectMongoDB
  \/ ConnectNeo4j
  \/ ConnectFails
  \/ RetrievalRaised
  \/ RetrievalReturned
  \/ BuildPrompt
  \/ \E content \in Answers : AnswerGenerated(content)
  \/ \E error \in GenerationErrors : AnswerGenerationFails(error)

\* POST /api/query passes the topK and graphDepth of the request body as
\* they are; 0 is a value a request can carry.
NextQuery ==
  \/ \E topK \in 0..MaxTopK, graphDepth \in 0..MaxDepth : StartQuery(topK, graphDepth)
  \/ QueryStep
  \/ RetrievalStep

SpecQuery == InitQuery /\ [][NextQuery]_vars

\* Every store call and every generation call returns or raises: a step
\* that can be taken is eventually taken.
SpecQueryLive == SpecQuery /\ WF_vars(QueryStep) /\ WF_vars(RetrievalStep)
(***************************************************************************)
(* Concurrent queries over the module-level connections                    *)
(*                                                                         *)
(* Each action is one run of a queryGraphRAG call from the settlement of   *)
(* the promise it awaits to its next await. The stores hold the corpus and *)
(* answer every statement: the vector search returns passages, the names   *)
(* query resolves an entity and the traversal finds a related passage.     *)
(***************************************************************************)
\* The locals of a concurrent queryGraphRAG call before the call. result is
\* what the caller gets, error the message of what was thrown, evidence what
\* allChunks is made of; connected records that the call's connectMongoDB
\* returned without throwing and closeMongoDB has not been called since.
IdleConcurrent ==
  [pc |-> "idle", result |-> "pending", error |-> "none", evidence |-> "none",
   connected |-> FALSE]

\* getDatabase(): throws 'Database not connected' when db is null.
getDatabaseThrows(c) == c.db = Null

\* getSession(): throws 'Neo4j not connected' when driver is null.
getSessionThrows(c) == c.driver = Null

\* The call of closeMongoDB: every earlier return of connectMongoDB now has a
\* closeMongoDB call after it.
CloseCalled(qs) == [j \in DOMAIN qs |-> [qs[j] EXCEPT !.connected = FALSE]]

\* closeNeo4j up to its await: with a driver it awaits driver.close(),
\* without one it returns.
closeNeo4jCalled(c) == IF c.driver # Null THEN "closingNeo4j" ELSE "done"

\* The finally block up to its first await: closeMongoDB awaits
\* client.close() when there is a client, and otherwise returns and
\* closeNeo4j is called.
finallyCalled(c) == IF c.client # Null THEN "closingMongo" ELSE closeNeo4jCalled(c)

\* The call i leaves the try block with a result (return, or catch and
\* rethrow) and runs the finally block up to its first await.
Leave(i, result, error, evidence) ==
  /\ queries' = [CloseCalled(queries) EXCEPT
                   ![i].pc = finallyCalled(conn),
                   ![i].result = result,
                   ![i].error = error,
                   ![i].evidence = evidence]
  /\ UNCHANGED conn

\* connectNeo4j up to its await, called once connectMongoDB has returned:
\* with a driver it returns and hybridRetrieval awaits generateEmbedding,
\* without one it creates the driver and awaits verifyConnectivity.
connectNeo4jCalled(i, c) ==
  IF c.driver # Null
  THEN /\ queries' = [queries EXCEPT ![i].pc = "embedding", ![i].connected = TRUE]
       /\ conn' = c
  ELSE /\ queries' = [queries EXCEPT ![i].pc = "verifying", ![i].connected = TRUE]
       /\ conn' = [c EXCEPT !.driver = "driver"]

\* queryGraphRAG up to its first await. connectMongoDB returns the client
\* when there is one (lines 12-14); otherwise it creates the client and
\* awaits client.connect().
QueryCalled(i) ==
  /\ queries[i].pc = "idle"
  /\ IF conn.client # Null
     THEN connectNeo4jCalled(i, conn)
     ELSE /\ queries' = [queries EXCEPT ![i].pc = "connectingMongo"]
          /\ conn' = [conn EXCEPT !.client = "client"]
  /\ UNCHANGED outsideConcurrent

\* client.connect() resolves: db = client.db(...) reads the module's client,
\* which is null when a closeMongoDB has completed meanwhile.
ClientConnectResolves(i) ==
  /\ queries[i].pc = "connectingMongo"
  /\ IF conn.client = Null
     THEN Leave(i, "raised", "TypeError", "none")
     ELSE connectNeo4jCalled(i, [conn EXCEPT !.db = "db"])
  /\ UNCHANGED outsideConcurrent

\* client.connect() rejects (the store cannot be reached): connectMongoDB
\* rethrows and leaves client as it is.
ClientConnectRejects(i) ==
  /\ queries[i].pc = "connectingMongo"
  /\ Leave(i, "raised", "unreachable", "none")
  /\ UNCHANGED outsideConcurrent

\* driver.verifyConnectivity() resolves: hybridRetrieval awaits
\* generateEmbedding.
VerifyConnectivityResolves(i) ==
  /\ queries[i].pc = "verifying"
  /\ queries' = [queries EXCEPT ![i].pc = "embedding"]
  /\ UNCHANGED <<conn, outsideConcurrent>>

\* generateEmbedding resolves: vectorSearch calls getCollection and awaits
\* the aggregate.
GenerateEmbeddingResolves(i) ==
  /\ queries[i].pc = "embedding"
  /\ IF getDatabaseThrows(conn)
     THEN Leave(i, "raised", "Database not connected", "none")
     ELSE /\ queries' = [queries EXCEPT ![i].pc = "searching"]
          /\ UNCHANGED conn
  /\ UNCHANGED outsideConcurrent

\* The call goes on without graph expansion: no entity name or no related
\* entity, so allChunks is the vector results, and model.invoke is awaited.
VectorOnly(i) ==
  /\ queries' = [queries EXCEPT ![i].pc = "generating", ![i].evidence = "vector"]
  /\ UNCHANGED conn

\* The aggregate resolves: extractEntityNamesFromChunks calls getSession
\* inside its try block and awaits the names query.
AggregateResolves(i) ==
  /\ queries[i].pc = "searching"
  /\ IF getSessionThrows(conn)
     THEN VectorOnly(i)
     ELSE /\ queries' = [queries EXCEPT ![i].pc = "resolving"]
          /\ UNCHANGED conn
  /\ UNCHANGED outsideConcurrent

\* The names query resolves: expandViaGraph calls findRelatedEntities, whose
\* getSession throws into the catch of the loop.
NamesQueryResolves(i) ==
  /\ queries[i].pc = "resolving"
  /\ IF getSessionThrows(conn)
     THEN VectorOnly(i)
     ELSE /\ queries' = [queries EXCEPT ![i].pc = "expanding"]
          /\ UNCHANGED conn
  /\ UNCHANGED outsideConcurrent

\* The traversal resolves: getChunksByIds calls getCollection and awaits the
\* find.
TraversalResolves(i) ==
  /\ queries[i].pc = "expanding"
  /\ IF getDatabaseThrows(conn)
     THEN Leave(i, "raised", "Database not connected", "none")
     ELSE /\ queries' = [queries EXCEPT ![i].pc = "fetching"]
          /\ UNCHANGED conn
  /\ UNCHANGED outsideConcurrent

\* The find resolves: allChunks is the vector results and the graph chunks,
\* the prompt is built and model.invoke is awaited.
FindResolves(i) ==
  /\ queries[i].pc = "fetching"
  /\ queries' = [queries EXCEPT ![i].pc = "generating", ![i].evidence = "vector+graph"]
  /\ UNCHANGED <<conn, outsideConcurrent>>

\* model.invoke settles: the call returns its result and runs the finally
\* block.
InvokeSettles(i) ==
  /\ queries[i].pc = "generating"
  /\ Leave(i, "answered", "none", queries[i].evidence)
  /\ UNCHANGED outsideConcurrent

\* client.close() resolves: closeMongoDB sets client and db to null (lines
\* 56-57), whichever call created them, and closeNeo4j is called.
ClientCloseResolves(i) ==
  /\ queries[i].pc = "closingMongo"
  /\ queries' = [queries EXCEPT ![i].pc = closeNeo4jCalled(conn)]
  /\ conn' = [conn EXCEPT !.client = Null, !.db = Null]
  /\ UNCHANGED outsideConcurrent

\* driver.close() resolves: closeNeo4j sets driver to null and the call
\* ends.
DriverCloseResolves(i) ==
  /\ queries[i].pc = "closingNeo4j"
  /\ queries' = [queries EXCEPT ![i].pc = "done"]
  /\ conn' = [conn EXCEPT !.driver = Null]
  /\ UNCHANGED outsideConcurrent

InitConcurrent ==
  /\ nodes = CorpusNodes
  /\ edges = CorpusEdges
  /\ calls = <<>>
  /\ collection = Corpus
  /\ hr = IdleRetrieval
  /\ ef = IdleBatch
  /\ requests = <<>>
  /\ timers = <<>>
  /\ q = IdleQuery
  /\ conn = NoConnections
  /\ queries = [i \in 1..MaxQueries |-> IdleConcurrent]

NextConcurrent ==
  \E i \in 1..MaxQueries :
    \/ QueryCalled(i)
    \/ ClientConnectResolves(i)
    \/ ClientConnectRejects(i)
    \/ VerifyConnectivityResolves(i)
    \/ GenerateEmbeddingResolves(i)
    \/ AggregateResolves(i)
    \/ NamesQueryResolves(i)
    \/ TraversalResolves(i)
    \/ FindResolves(i)
    \/ InvokeSettles(i)
    \/ ClientCloseResolves(i)
    \/ DriverCloseResolves(i)

SpecConcurrent == InitConcurrent /\ [][NextConcurrent]_vars

(***************************************************************************)
(* Entity Extractor: properties                                            *)
(***************************************************************************)
\* C10: when the timer decides the race of an extraction call, the call
\* returns, and does not throw, an extraction with no entity and no
\* relationship.
C10_TimeoutReturnsEmptyExtraction ==
  \A r \in 1..Len(timers) :
    timers[r] = "won" =>
      /\ ef.outcomes[ChunkOfRequest(r)] = "returned"
      /\ ef.chunksWithExtractions[ChunkOfRequest(r)].extraction.entities = <<>>
      /\ ef.chunksWithExtractions[ChunkOfRequest(r)].extraction.relationships = <<>>

\* The timer of a call fired while its generation request was still pending
\* at the backend.
C10_Witness ==
  \E r \in 1..Len(timers) : timers[r] = "won" /\ requests[r] = "pending"

\* The kinds of content that are not an extraction object.
MalformedKinds == {"unparseable", "null", "string", "number", "array"}

\* The response to request r decided the race of its call.
ResponseDecided(r) == requests[r] \notin {"pending", "rejected"} /\ timers[r] # "won"

\* C11: when the generation output is not a well-formed extraction object
\* (text that does not parse, or JSON whose top level is null, a string, a
\* number or an array), the call returns, and does not throw, a value with
\* no entity, no relationship and a diagnostic message.
C11_MalformedOutputGivesEmptyExtractionWithMessage ==
  \A r \in 1..Len(requests) :
    (ResponseDecided(r) /\ requests[r] \in MalformedKinds) =>
      /\ ef.outcomes[ChunkOfRequest(r)] = "returned"
      /\ ef.chunksWithExtractions[ChunkOfRequest(r)].extraction.entities = <<>>
      /\ ef.chunksWithExtractions[ChunkOfRequest(r)].extraction.relationships = <<>>
      /\ ef.chunksWithExtractions[ChunkOfRequest(r)].extraction.error # Null

\* The call for the chunk at position m failed: it threw, or it returned the
\* empty extraction of its catch block.
ExtractionFailed(m) ==
  \/ ef.outcomes[m] = "threw"
  \/ ef.chunksWithExtractions[m].extraction.error # Null

\* C12: batch extraction isolates failures. Entries are pushed in input
\* order, one per chunk processed so far and each with an extraction, and
\* the batch returns only when every chunk has its entry, whatever calls
\* failed.
C12_BatchIsolatesFailures ==
  /\ Len(ef.chunksWithExtractions) <= Len(ef.chunks)
  /\ \A m \in 1..Len(ef.chunksWithExtractions) :
       /\ ef.chunksWithExtractions[m].chunk_id = ef.chunks[m].chunk_id
       /\ ef.chunksWithExtractions[m].text = ef.chunks[m].text
       /\ ef.chunksWithExtractions[m].extraction.entities \in Seq({Sam, OpenAI, NoName, Blank, Alien})
       /\ ef.chunksWithExtractions[m].extraction.relationships
            \in Seq({CeoOf, Partnered, NoTarget, NoLabel})
  /\ ef.pc = "done" =>
       /\ Len(ef.chunksWithExtractions) = Len(ef.chunks)
       /\ ef.processed = Len(ef.chunks)

\* A returned batch whose first chunk failed and whose last chunk, a
\* different one, was extracted with an entity.
C12_Witness ==
  /\ ef.pc = "done" /\ Len(ef.chunks) >= 2
  /\ ExtractionFailed(1)
  /\ ef.chunks[1].chunk_id # ef.chunks[Len(ef.chunks)].chunk_id
  /\ ef.chunksWithExtractions[Len(ef.chunks)].extraction.entities # <<>>

\* The generation requests the backend has not answered yet.
InFlight == {r \in 1..Len(requests) : requests[r] = "pending"}

\* C23: during batch extraction at most one generation request is in flight
\* at the backend, including after a call ended by timeout.
C23_AtMostOneRequestInFlight == Cardinality(InFlight) <= 1

\* The race of call r was decided.
Decided(r) == r < ef.cur \/ (r = ef.cur /\ ef.pc # "racing")

\* C28: the result of an extraction call is decided by whichever of the
\* generation call and the timer settles first. An entry pushed for a chunk
\* never changes; the completion of an abandoned generation call and the
\* late firing of a timer leave the batch, its counters and everything else
\* as they were; and the entry of a call carries the timeout message exactly
\* when its timer settled first.
C28_RaceDecidedByFirstSettlement ==
  /\ [][ /\ \A m \in 1..Len(ef.chunksWithExtractions) :
             /\ m <= Len(ef'.chunksWithExtractions)
             /\ ef'.chunksWithExtractions[m] = ef.chunksWithExtractions[m]
         /\ \A r \in 1..Len(requests) :
             (requests'[r] # requests[r] /\ ~Racing(r)) =>
                /\ timers[r] = "won"
                /\ UNCHANGED <<ef, timers, outsideExtractor>>
         /\ \A r \in 1..Len(timers) :
             (timers'[r] # timers[r] /\ ~Racing(r)) =>
                /\ requests[r] # "pending" /\ timers'[r] = "fired"
                /\ UNCHANGED <<ef, requests, outsideExtractor>> ]_vars
  /\ [](\A r \in 1..Len(requests) :
          Decided(r) =>
            /\ ef.outcomes[ChunkOfRequest(r)] = "returned"
            /\ (timers[r] = "won") <=>
                 (ef.chunksWithExtractions[ChunkOfRequest(r)].extraction.error
                    = "Extraction timeout"))

\* Both late events happened: a generation call answered with entities after
\* its timer had decided the race, and a timer fired after the response had.
C28_Witness ==
  /\ \E r \in 1..Len(requests) :
       /\ timers[r] = "won" /\ requests[r] = "object"
       /\ ef.chunksWithExtractions[ChunkOfRequest(r)].extraction.entities = <<>>
  /\ \E r \in 1..Len(requests) :
       /\ timers[r] = "fired" /\ requests[r] = "object"
       /\ ef.chunksWithExtractions[ChunkOfRequest(r)].extraction.entities # <<>>

(***************************************************************************)
(* Hybrid Retriever: properties                                            *)
(***************************************************************************)
ChunkIdsOf(chunks) == {chunks[m].chunk_id : m \in 1..Len(chunks)}

NoRepeatedChunkId(chunks) ==
  \A a, b \in 1..Len(chunks) : a # b => chunks[a].chunk_id # chunks[b].chunk_id

\* C1: the final evidence set holds each chunk_id at most once, and its
\* identifiers are exactly those of the vector search result and of the
\* passages fetched for the graph-discovered entities.
C1_EvidenceSetIsDuplicateFreeUnion ==
  hr.pc = "done" =>
    /\ NoRepeatedChunkId(hr.allChunks)
    /\ ChunkIdsOf(hr.allChunks) = ChunkIdsOf(hr.vectorResults) \cup ChunkIdsOf(hr.fetched)

\* C2: with graphDepth = 0 the evidence set is the vector search result,
\* passage for passage, and there are no graph chunks and no graph paths.
C2_DepthZeroIsVectorOnly ==
  (hr.pc = "done" /\ hr.graphDepth = 0) =>
    /\ hr.allChunks = hr.vectorResults
    /\ hr.graphChunks = <<>>
    /\ hr.graphPaths = <<>>

\* A finished query with graphDepth = 0 whose vector result mentions an
\* entity that has a neighbour in the graph, the neighbour's passage being
\* in the store and outside the vector result.
C2_Witness ==
  /\ hr.pc = "done" /\ hr.graphDepth = 0
  /\ \E m \in 1..Len(hr.entityNames) :
       \E r \in TraversalRecords(nodes, edges, hr.entityNames[m], 1) :
         /\ r.chunk_id \in ChunkIdsOf(collection)
         /\ r.chunk_id \notin ChunkIdsOf(hr.vectorResults)

\* Position at which the graph traversal first discovered an entity of the
\* passage with this chunk_id.
DiscoveryIndex(chunkId) ==
  CHOOSE m \in 1..Len(hr.relatedEntities) :
    /\ hr.relatedEntities[m].chunk_id = chunkId
    /\ \A l \in 1..(m - 1) : hr.relatedEntities[l].chunk_id # chunkId

\* C3: the evidence set starts with the vector search result in rank order
\* and continues with the graph-origin passages in the order in which the
\* traversal discovered their entities.
C3_SemanticFirstThenDiscoveryOrder ==
  hr.pc = "done" =>
    /\ SubSeq(hr.allChunks, 1, Len(hr.vectorResults)) = hr.vectorResults
    /\ \A a, b \in (Len(hr.vectorResults) + 1)..Len(hr.allChunks) :
         a < b => DiscoveryIndex(hr.allChunks[a].chunk_id)
                    <= DiscoveryIndex(hr.allChunks[b].chunk_id)

\* What the evidence set owes to one record of a successful expansion of
\* entityName: the related entity, the path to it, and the stored passages
\* of the related entity.
RecordIsInEvidence(entityName, r) ==
  /\ EntityKey(r.type, r.name) \in SeenEntities(hr.relatedEntities)
  /\ [from |-> entityName, to |-> r.name, depth |-> Len(r.path)] \in Range(hr.graphPaths)
  /\ r.chunk_id \in ChunkIdsOf(collection) => r.chunk_id \in ChunkIdsOf(hr.allChunks)

\* C13: when a retrieval returns, the expansion of every resolved entity name
\* that did not raise is in the evidence set, whichever other names raised:
\* its related entities, its paths and their stored passages.
C13_FailedExpansionSkipsOnlyThatEntity ==
  (hr.pc = "done" /\ hr.vectorResults # <<>>) =>
    \A m \in (1..Len(hr.entityNames)) \ hr.failed :
      \A r \in TraversalRecords(nodes, edges, hr.entityNames[m], hr.graphDepth) :
        RecordIsInEvidence(hr.entityNames[m], r)

\* A returned retrieval in which the expansion of the first name raised and
\* that of a later name found an entity whose passage is stored and is not
\* among the vector results.
C13_Witness ==
  /\ hr.pc = "done" /\ 1 \in hr.failed
  /\ \E m \in (2..Len(hr.entityNames)) \ hr.failed :
       \E r \in TraversalRecords(nodes, edges, hr.entityNames[m], hr.graphDepth) :
         /\ r.chunk_id \in ChunkIdsOf(collection)
         /\ r.chunk_id \notin ChunkIdsOf(hr.vectorResults)

\* The position in paths of the first record that reached the entity called
\* name (every record pushes a path, and the names of the graph identify
\* its entities).
FirstDiscovery(name) ==
  CHOOSE k \in 1..Len(hr.paths) :
    /\ hr.paths[k].to = name
    /\ \A l \in 1..(k - 1) : hr.paths[l].to # name

\* C25: at every point of expandViaGraph and after it, relatedEntities holds
\* no two entries with the same (type, name); every entity a record reached
\* has its entry, and the entries are in the order of first discovery.
C25_RelatedEntitiesHoldEachKeyOnce ==
  /\ \A a, b \in 1..Len(hr.relatedEntities) :
       a # b => EntityKey(hr.relatedEntities[a].type, hr.relatedEntities[a].name)
                  # EntityKey(hr.relatedEntities[b].type, hr.relatedEntities[b].name)
  /\ {hr.relatedEntities[a].name : a \in 1..Len(hr.relatedEntities)}
       = {hr.paths[k].to : k \in 1..Len(hr.paths)}
  /\ \A a, b \in 1..Len(hr.relatedEntities) :
       a < b => FirstDiscovery(hr.relatedEntities[a].name)
                  < FirstDiscovery(hr.relatedEntities[b].name)

\* A finished expansion in which one entity was reached from two different
\* starting entities.
C25_Witness ==
  /\ hr.pc \in {"fetching", "done"}
  /\ \E k, l \in 1..Len(hr.paths) :
       /\ hr.paths[k].to = hr.paths[l].to
       /\ hr.paths[k].from # hr.paths[l].from

\* The edges the traversal went over: those on a path matched from a
\* resolved entity name whose expansion did not raise.
TraversedEdges ==
  UNION { UNION { Range(p.rels)
                  : p \in MatchPaths(nodes, edges, hr.entityNames[m], hr.graphDepth) }
          : m \in (1..Len(hr.entityNames)) \ hr.failed }

\* C15: when a retrieval returns, graphPaths holds for every traversed edge
\* a tuple whose from and to are the two ends of that edge, and the evidence
\* set is larger than the vector result whenever a discovered entity
\* references a stored passage outside it.
C15_EveryTraversedEdgeHasAPathTuple ==
  (hr.pc = "done" /\ hr.vectorResults # <<>>) =>
    /\ \A e \in TraversedEdges :
         \E m \in 1..Len(hr.graphPaths) :
           {hr.graphPaths[m].from, hr.graphPaths[m].to} = {e.fromName, e.toName}
    /\ (\E m \in 1..Len(hr.relatedEntities) :
          /\ hr.relatedEntities[m].chunk_id \in ChunkIdsOf(collection)
          /\ hr.relatedEntities[m].chunk_id \notin ChunkIdsOf(hr.vectorResults))
       => Len(hr.allChunks) > Len(hr.vectorResults)

\* The paths recorded for the starting entity entityName.
PathsFrom(entityName) == {m \in 1..Len(hr.paths) : hr.paths[m].from = entityName}

\* C14: one expansion contributes at most the cap of 50 records, whatever
\* the degree of the starting entity: the paths recorded for one starting
\* entity are at most 50, and relatedEntities and paths hold at most 50
\* entries per entity name expanded so far.
C14_PopularNodeCap ==
  /\ \A m \in 1..Len(hr.entityNames) :
       Cardinality(PathsFrom(hr.entityNames[m])) <= 50
  /\ Len(hr.paths) <= 50 * (hr.idx - 1)
  /\ Len(hr.relatedEntities) <= 50 * (hr.idx - 1)
  /\ Len(hr.graphPaths) <= 50 * Len(hr.entityNames)

\* The expansion of an entity with more matching paths than the cap has
\* returned, and every record it returned was kept.
C14_Witness ==
  \E m \in 1..(hr.idx - 1) :
    /\ m \notin hr.failed
    /\ Cardinality(TraversalRecords(nodes, edges, hr.entityNames[m], hr.graphDepth)) > 50
    /\ Cardinality(PathsFrom(hr.entityNames[m])) = 50

(***************************************************************************)
(* Query Orchestrator: properties                                          *)
(***************************************************************************)
\* The (doc_id, page_number) pairs of a sequence of chunks or citations.
PagesOf(seq) == {<<seq[m].doc_id, seq[m].page_number>> : m \in 1..Len(seq)}

\* queryGraphRAG returned after step 5.
ReturnedWithCitations == q.pc \in {"answered", "timedOut"}

\* C16: the citations a query returns hold exactly one citation per
\* (doc_id, page_number) pair of the final evidence set allChunks: no two
\* citations share a pair, every pair of allChunks is cited, and every
\* citation is that of a chunk of allChunks.
C16_OneCitationPerPageOfEvidenceSet ==
  ReturnedWithCitations =>
    /\ \A a, b \in 1..Len(q.citations) :
         a # b => <<q.citations[a].doc_id, q.citations[a].page_number>>
                    # <<q.citations[b].doc_id, q.citations[b].page_number>>
    /\ PagesOf(q.citations) = PagesOf(hr.allChunks)
    /\ \A a \in 1..Len(q.citations) :
         \E m \in 1..Len(hr.allChunks) :
           /\ hr.allChunks[m].chunk_id = q.citations[a].chunk_id
           /\ hr.allChunks[m].doc_id = q.citations[a].doc_id
           /\ hr.allChunks[m].page_number = q.citations[a].page_number

\* A returned query whose evidence set has two chunks sharing a page and a
\* chunk of another page that is not among the documents of the prompt.
C16_Witness ==
  /\ ReturnedWithCitations
  /\ \E a, b \in 1..Len(hr.allChunks) :
       /\ a # b
       /\ hr.allChunks[a].chunk_id # hr.allChunks[b].chunk_id
       /\ CitationKey(hr.allChunks[a]) = CitationKey(hr.allChunks[b])
  /\ \E a \in 1..Len(q.citations) :
       \A m \in 1..Len(q.prompt.documents) :
         <<Passage(q.prompt.documents[m].chunk_id).doc_id, q.prompt.documents[m].page_number>>
           # <<q.citations[a].doc_id, q.citations[a].page_number>>

\* C17: when the generation call of a query fails on its timeout, the query
\* returns the fallback answer with the citations of the evidence set and
\* the graph paths of the retrieval, and the model was invoked once.
C17_GenerationTimeoutReturnsFallback ==
  /\ q.invocations <= 1
  /\ q.generation = "rejected" =>
       /\ q.pc = "timedOut"
       /\ q.answer = FallbackAnswer
       /\ q.citations = extractCitations(hr.allChunks)
       /\ q.graphPaths = hr.graphPaths
       /\ q.invocations = 1

\* A query whose generation timed out after a retrieval that found passages
\* and graph paths.
C17_Witness ==
  /\ q.generation = "rejected"
  /\ Len(hr.allChunks) > 0 /\ Len(q.citations) > 0 /\ Len(q.graphPaths) > 0

\* C18: queryGraphRAG raises only when a connect fails, before retrieval has
\* begun; a query that has begun to retrieve ends with an answer.
C18_RaisesOnlyBeforeRetrieval ==
  /\ q.pc = "raised" => hr.pc = "idle"
  /\ q.pc \in {"emptyEvidence", "answered", "timedOut"} => q.answer # Null

\* The states of the query state machine.
QueryState ==
  CASE q.pc \in {"idle", "connectingMongo", "connectingNeo4j"} -> "Idle"
    [] q.pc = "retrieving" -> "Retrieving"
    [] q.pc = "emptyEvidence" -> "EmptyEvidence"
    [] q.pc = "promptBuilding" -> "PromptBuilding"
    [] q.pc = "generating" -> "Generating"
    [] q.pc = "answered" -> "Answered"
    [] q.pc = "timedOut" -> "GenerationTimedOut"
    [] q.pc = "raised" -> "Raised"

TerminalStates == {"EmptyEvidence", "Answered", "GenerationTimedOut", "Raised"}

\* Idle -> Retrieving -> (EmptyEvidence | PromptBuilding -> Generating ->
\* (Answered | GenerationTimedOut)), or a raise while connecting or
\* retrieving.
QueryTransitions ==
  { <<"Idle", "Retrieving">>, <<"Idle", "Raised">>,
    <<"Retrieving", "EmptyEvidence">>, <<"Retrieving", "PromptBuilding">>,
    <<"Retrieving", "Raised">>,
    <<"PromptBuilding", "Generating">>,
    <<"Generating", "Answered">>, <<"Generating", "GenerationTimedOut">> }

\* C19: a query only moves along the transitions of the state machine (so
\* the prompt is built after retrieval, generation starts after the prompt
\* is built, no state is revisited and a terminal state is never left), and
\* a query that was started eventually reaches a terminal state.
C19_QueryFollowsStateMachine ==
  /\ [][QueryState' # QueryState => <<QueryState, QueryState'>> \in QueryTransitions]_vars
  /\ [](q.prompt.built => hr.pc = "done")
  /\ (q.pc # "idle") ~> (QueryState \in TerminalStates)

\* A query that went through every state up to Answered.
C19_Witness ==
  /\ QueryState = "Answered"
  /\ hr.pc = "done" /\ q.prompt.built /\ q.generation = "resolved"

\* C20: when the vector search returns no passage the retrieval ends without
\* resolving entities and without a query to the graph store, and the query
\* returns the fixed answer with no citation and no graph path, without a
\* prompt and without a generation call.
C20_EmptyVectorResultEndsEarly ==
  (hr.pc = "done" /\ hr.vectorResults = <<>>) =>
    /\ hr.graphQueries = 0
    /\ hr.entityNames = <<>> /\ hr.relatedEntities = <<>>
    /\ hr.allChunks = <<>> /\ hr.graphPaths = <<>>
    /\ q.pc \in {"retrieving", "emptyEvidence"}
    /\ q.pc = "emptyEvidence" =>
         /\ q.answer = NoInformationAnswer
         /\ q.citations = <<>> /\ q.graphPaths = <<>>
    /\ ~q.prompt.built
    /\ q.generation = "none" /\ q.invocations = 0

\* A query that returned the fixed answer although the collection holds
\* passages and the graph holds entities.
C20_Witness ==
  /\ q.pc = "emptyEvidence"
  /\ collection # <<>> /\ nodes # {}

\* C21: whatever the retrieval returned, and for every topK and graphDepth
\* of the query, the prompt holds at most 2 passages and at most 3
\* relationship paths, and never more than the retrieval returned.
C21_PromptNeverExceedsCaps ==
  q.prompt.built =>
    /\ Len(q.prompt.documents) <= 2
    /\ Len(q.prompt.graph) <= 3
    /\ Len(q.prompt.documents) <= Len(hr.allChunks)
    /\ Len(q.prompt.graph) <= Len(hr.graphPaths)

\* A prompt built from a retrieval that returned more than 2 passages and
\* more than 3 paths, and that holds 2 passages and 3 paths.
C21_Witness ==
  /\ q.prompt.built
  /\ Len(hr.allChunks) > 2 /\ Len(hr.graphPaths) > 3
  /\ Len(q.prompt.documents) = 2 /\ Len(q.prompt.graph) = 3

\* The chunk ids of the graph-origin passages of the evidence set.
GraphOriginIds == ChunkIdsOf(hr.graphChunks)

\* C30: the passages of the prompt are the first min(2, size) passages of
\* the evidence set, in its order; so when the vector search returned at
\* least 2 passages, every passage of the prompt is a vector result and none
\* is a graph-origin passage.
C30_PromptHoldsFirstPassagesOfEvidenceSet ==
  q.prompt.built =>
    /\ Len(q.prompt.documents) = Min(2, Len(hr.allChunks))
    /\ \A k \in 1..Len(q.prompt.documents) :
         /\ q.prompt.documents[k].chunk_id = hr.allChunks[k].chunk_id
         /\ q.prompt.documents[k].text = hr.allChunks[k].text
         /\ q.prompt.documents[k].page_number = hr.allChunks[k].page_number
    /\ Len(hr.vectorResults) >= 2 =>
         \A k \in 1..Len(q.prompt.documents) :
           /\ q.prompt.documents[k].chunk_id = hr.vectorResults[k].chunk_id
           /\ q.prompt.documents[k].chunk_id \notin GraphOriginIds

\* A prompt built after the vector search returned 2 passages and the graph
\* expansion added a passage of its own to the evidence set.
C30_Witness ==
  /\ q.prompt.built
  /\ Len(hr.vectorResults) >= 2
  /\ GraphOriginIds # {}
  /\ Len(hr.allChunks) > Len(q.prompt.documents)

\* C27: once the vector search of a query has returned, the semantic result
\* set holds at most topK passages, for every topK >= 0 the query asked for.
C27_AtMostTopKPassages ==
  hr.pc \in {"resolving", "expanding", "fetching", "done"} =>
    Len(hr.vectorResults) <= hr.topK

\* What POST /api/query answers for a query that ended: success: false with
\* the message when queryGraphRAG raised (status 500), success: true with
\* the answer otherwise.
ApiSuccess == q.pc # "raised"

\* C24: a query during which the generation backend could not be reached
\* ends as a labeled failure: it raises, the API answers success: false, and
\* the caller gets no answer, in particular not the answer of a generation
\* timeout; and the failed call is made once.
C24_UnreachableBackendIsALabeledFailure ==
  q.generationError = "unreachable" =>
    /\ q.pc = "raised" /\ ~ApiSuccess
    /\ q.answer = Null
    /\ q.invocations = 1

(***************************************************************************)
(* Concurrent queries: properties                                          *)
(***************************************************************************)
\* What a query returns when it runs alone against the corpus with both
\* stores reachable: an answer over the vector results and the graph chunks.
AloneOutcome == [result |-> "answered", evidence |-> "vector+graph"]

Outcome(i) == [result |-> queries[i].result, evidence |-> queries[i].evidence]

\* No connect of any call was rejected: the stores are reachable.
StoresReachable == \A j \in DOMAIN queries : queries[j].error # "unreachable"

\* The call is between its connects and its finally block: hybridRetrieval
\* is using the store connections.
UsingStores(i) ==
  queries[i].pc \in {"embedding", "searching", "resolving", "expanding", "fetching"}

\* C22: with the stores reachable, every query that ran concurrently with
\* others ends with the outcome it has when run alone, and while a query is
\* retrieving the shared connections stay open, whatever other queries
\* finish meanwhile.
C22_ConcurrentQueriesAreIndependent ==
  StoresReachable =>
    \A i \in DOMAIN queries :
      /\ queries[i].pc = "done" => Outcome(i) = AloneOutcome
      /\ UsingStores(i) => (~getDatabaseThrows(conn) /\ ~getSessionThrows(conn))

\* C29: whenever a connectMongoDB call has returned without throwing and
\* closeMongoDB has not been called since, getDatabase returns the handle.
C29_ConnectedMeansDatabaseAvailable ==
  \A i \in DOMAIN queries : queries[i].connected => ~getDatabaseThrows(conn)

(***************************************************************************)
(* Graph Linker: properties                                                *)
(***************************************************************************)
\* The provenance references a node or an edge carries.
ProvRefs(x) ==
  IF x.chunk_id = Null THEN {} ELSE {[chunk_id |-> x.chunk_id, doc_id |-> x.doc_id]}

\* Entities (relationships) of call c whose upsert has been executed.
StoredEntities(c) ==
  {c.extraction.entities[m] : m \in 1..(c.i - 1)} \cap
  {e \in Range(c.extraction.entities) : e.type \in EntityTypes}

StoredRelationships(c) == {c.extraction.relationships[m] : m \in 1..(c.j - 1)}

NodeCarries(label, name, chunk) ==
  \E n \in NodesMatching(nodes, label, name) : Provenance(chunk) \in ProvRefs(n)

EdgeCarries(rel, chunk) ==
  \E e \in EdgesMatching(edges, sanitizeLabel(rel.from_type), rel.from,
                         sanitizeLabel(rel.type), sanitizeLabel(rel.to_type), rel.to) :
     Provenance(chunk) \in ProvRefs(e)

\* C4: provenance is append-only. Every entity and every relationship that a
\* storeExtraction call has upserted keeps that call's passage among the
\* provenance references of its node or edge, whatever was stored later.
C4_ProvenanceAppendOnly ==
  \A k \in 1..Len(calls) :
    /\ \A e \in StoredEntities(calls[k]) : NodeCarries(e.type, e.name, calls[k].chunk)
    /\ \A r \in StoredRelationships(calls[k]) : EdgeCarries(r, calls[k].chunk)

\* C5: upsert is idempotent on identity. The graph never holds two nodes
\* with the same (label, name) key nor two edges with the same
\* (from, relationship type, to) triple.
C5_OneNodePerKeyOneEdgePerTriple ==
  /\ \A n1, n2 \in nodes :
       (n1.label = n2.label /\ n1.name = n2.name) => n1 = n2
  /\ \A e1, e2 \in edges :
       (/\ e1.fromLabel = e2.fromLabel /\ e1.fromName = e2.fromName
        /\ e1.type = e2.type
        /\ e1.toLabel = e2.toLabel /\ e1.toName = e2.toName) => e1 = e2

\* Two finished calls for different passages have both upserted the entity
\* Sam Altman and the relationship Sam Altman -CEO_OF-> OpenAI.
C5_Witness ==
  \E k1, k2 \in 1..Len(calls) :
    /\ calls[k1].chunk # calls[k2].chunk
    /\ calls[k1].pc = "done" /\ calls[k2].pc = "done"
    /\ Sam \in StoredEntities(calls[k1]) /\ CeoOf \in StoredRelationships(calls[k1])
    /\ Sam \in StoredEntities(calls[k2]) /\ CeoOf \in StoredRelationships(calls[k2])
    /\ NodesMatching(nodes, "Person", "Sam Altman") # {}
    /\ EdgesMatching(edges, "Person", "Sam Altman", "CEO_OF", "Company", "OpenAI") # {}

\* C6: two storeExtraction calls for different passages that ran concurrently
\* and both upserted the same entity leave a node carrying both passages'
\* provenance references.
C6_ConcurrentProvenanceKept ==
  \A k1, k2 \in 1..Len(calls) :
    (/\ k1 \in calls[k2].overlaps
     /\ calls[k1].chunk # calls[k2].chunk
     /\ calls[k1].pc = "done" /\ calls[k2].pc = "done")
    => \A e \in StoredEntities(calls[k1]) \cap StoredEntities(calls[k2]) :
         /\ NodeCarries(e.type, e.name, calls[k1].chunk)
         /\ NodeCarries(e.type, e.name, calls[k2].chunk)

\* C7: every node and every edge of the graph carries at least one
\* provenance reference.
C7_EveryNodeAndEdgeHasProvenance ==
  /\ \A n \in nodes : ProvRefs(n) # {}
  /\ \A e \in edges : ProvRefs(e) # {}

\* Call k is about to process an entity or a relationship that
\* validateExtraction rejects.
AtInvalidItem(k) ==
  LET c == calls[k] IN
  \/ /\ c.pc = "entities" /\ c.i <= Len(c.extraction.entities)
     /\ ~ValidEntity(c.extraction.entities[c.i])
  \/ /\ c.pc = "relationships" /\ c.j <= Len(c.extraction.relationships)
     /\ ~ValidRelationship(c.extraction.relationships[c.j])

\* C8: an item that fails validation never reaches the graph. The step of
\* storeExtraction that processes an invalid entity or an invalid
\* relationship creates no node and no edge.
C8_InvalidItemNeverReachesGraph ==
  [][\A k \in 1..Len(calls) :
       (AtInvalidItem(k) /\ calls'[k] # calls[k])
       => (nodes' = nodes /\ edges' = edges)]_vars

\* C9: no dangling edge. Both endpoint nodes of every edge exist.
C9_NoDanglingEdge ==
  \A e \in edges :
    /\ NodesMatching(nodes, e.fromLabel, e.fromName) # {}
    /\ NodesMatching(nodes, e.toLabel, e.toName) # {}

\* An edge whose target endpoint was mentioned by no stored entity: the node
\* exists only because createRelationship merged it.
C9_Witness ==
  \E e \in edges :
    /\ e.toName = "Microsoft"
    /\ \A k \in 1..Len(calls) :
         \A x \in StoredEntities(calls[k]) : x.name # "Microsoft"
    /\ NodesMatching(nodes, e.toLabel, e.toName) # {}

\* The entities of a call for which the entity loop ran an upsert: those
\* whose type is one of the cases of the switch.
UpsertedEntities(c) ==
  {m \in 1..Len(c.extraction.entities) : c.extraction.entities[m].type \in EntityTypes}

\* C26: the counts a storeExtraction call returns are the number of entities
\* it upserted a node for and the number of relationships it upserted an
\* edge for; an entity of a type outside the fixed set is not counted.
C26_CountsAreWhatWasWritten ==
  \A k \in 1..Len(calls) :
    calls[k].pc = "done" =>
      /\ calls[k].results.entities = Cardinality(UpsertedEntities(calls[k]))
      /\ calls[k].results.relationships = Len(calls[k].extraction.relationships)
====
